---- MODULE Spec2Model ----
(***************************************************************************)
(* Multi-user voice assistant: the session registry (session_manager.py), *)
(* the per-session state and SSE fan-out (state.py), the upstream run     *)
(* loop with barge-in (assistant.py) and the command handlers (main.py).  *)
(* Everything runs on one asyncio event loop: a handler runs atomically   *)
(* from one await that suspends to the next, and each action below is one *)
(* such stretch of code.                                                  *)
(***************************************************************************)
EXTENDS Naturals, Sequences, FiniteSets

(* ---------------------------------------------------------------- bounds *)
\* Spec, one run and its turn-taking: runs (start commands accepted) per
\* session, upstream events the runs of a session receive, stop and interrupt
\* commands per session
MaxRuns == 1
MaxEvents == 3
MaxCmds == 1
\* SpecRestart, stops and restarts: the same three
RestartRuns == 3
RestartEvents == 1
RestartCmds == 1
\* SpecFan, the SSE fan-out of a session that runs once and receives one
\* upstream event: the subscribers
MaxSubs == 2
\* SpecReg, two session ids that each run once and are stopped at most once:
\* upstream events a run receives
RegEvents == 1
\* SpecStop, shutdown: runs, upstream events and stop commands of the session
StopRuns == 1
StopEvents == 1
StopCmds == 1
\* SpecAudio, inbound audio: upstream events of the session
AudioEvents == 1
\* SpecTurns, the transcript: chat messages a session records
MaxTurns == 2
\* SpecStall, a subscriber that never reads: upstream events of the session
StallEvents == 1
\* SpecPlay, an utterance and its listener: upstream events of the session
PlayEvents == 3
\* SpecErr, errors across restarts: runs, upstream events and stop commands of
\* the session
ErrRuns == 2
ErrEvents == 2
ErrCmds == 1
(* ------------------------------------------------------------ value sets *)
\* every session id a request can carry
Ids == {"a", "b"}
\* the session ids the requests of Spec carry
LifeIds == {"a"}
\* str(e) of a failure and the message of an upstream error event
ErrMsgs == {"", "quota exceeded"}
\* the payload of an upstream audio delta: empty, or some PCM16 bytes
Deltas == {"", "PCM"}
\* the failure and error messages of SpecErr: none, and two that differ
ErrTexts == {"", "quota exceeded", "timeout"}
\* python's None, where a field holds a string or None
None == "None"
\* the role and the text of a chat message
Roles == {"user", "assistant"}
Texts == {"", "hello"}
\* config.py, required_vars
RequiredVars ==
    {"VOICE_LIVE_MODEL", "VOICE_LIVE_VOICE", "AZURE_VOICE_LIVE_API_KEY",
     "AZURE_VOICE_LIVE_ENDPOINT"}
\* the process environment, as the set of required variables that are set to
\* a non-empty value: all of them, all but the endpoint, or none
Envs == {RequiredVars, RequiredVars \ {"AZURE_VOICE_LIVE_ENDPOINT"}, {}}

VARIABLES
    sessions,   \* SessionManager._sessions: id -> 0 (absent) or the number of
                \* the SessionState object stored for id
    sess,       \* the fields of the SessionState stored for each id
    subs,       \* the event_generator of each SSE subscriber of each session
    runs,       \* per session, the BasicVoiceAssistant objects and their run() tasks
    ipend,      \* per session, the interrupt handlers suspended in response.cancel()
    used,       \* per session: [cmds: stop and interrupt commands issued,
                \* events: upstream events received]
    last        \* the step just taken: operation, inputs, and what it did

vars == <<sessions, sess, subs, runs, ipend, used, last>>

(* ------------------------------------------------------------- helpers *)
Range(f) == {f[i] : i \in DOMAIN f}

RECURSIVE SeqRemove(_, _)
\* list.remove(x): drops the first occurrence of x
SeqRemove(s, x) ==
    IF s = <<>> THEN <<>>
    ELSE IF Head(s) = x THEN Tail(s)
    ELSE <<Head(s)>> \o SeqRemove(Tail(s), x)

\* python's truth value of _response_cancelled, which holds False, True or,
\* after __init__ (line 29, "False," with a trailing comma), the tuple (False,)
Truthy(v) == v # "False"

\* base64.b64encode(delta).decode("utf-8")
b64encode(d) == IF d = "PCM" THEN "UENN" ELSE ""

(* ------------------------------------------------- state.py: SessionState *)
\* SessionState.__init__; stored is the rows of the chat_messages table that
\* carry this session's id (none when the session is created), which
\* _load_history_from_db copies to chat_history; applied collects the calls
\* of update in the current step
NewSession ==
    [state |-> "idle",
     chat_history |-> <<>>,
     stored |-> <<>>,
     message |-> "Select 'Start Session' to begin",
     last_error |-> None,
     connected |-> FALSE,
     assistant_task |-> 0,
     assistant_instance |-> 0,
     sse_queues |-> <<>>,
     queue |-> [k \in 1..MaxSubs |-> <<>>],
     emit |-> <<>>,
     applied |-> <<>>]

\* broadcast_event that returns from inside the loop: only the first
\* registered queue gets the event
broadcast_first_only(s, data) ==
    [s EXCEPT !.queue = [k \in DOMAIN @ |->
                            IF s.sse_queues # <<>> /\ k = Head(s.sse_queues)
                            THEN Append(@[k], data)
                            ELSE @[k]],
              !.emit = Append(@, data)]

\* broadcast_event on queues made with a maxsize (of 2): put_nowait raises
\* QueueFull at the first full queue, and the queues after it are not served
broadcast_event_bounded(s, data) ==
    LET full(k) == Len(s.queue[k]) >= 2
        pos(k) == CHOOSE i \in 1..Len(s.sse_queues) : s.sse_queues[i] = k
        served(k) == /\ k \in Range(s.sse_queues)
                     /\ \A i \in 1..pos(k) : ~full(s.sse_queues[i])
    IN  [s EXCEPT !.queue = [k \in DOMAIN @ |->
                                IF served(k) THEN Append(@[k], data) ELSE @[k]],
                  !.emit = Append(@, data)]

\* SessionState.broadcast_event: put_nowait on every registered queue
\* (emit collects what the current step broadcast)
broadcast_event(s, data) ==
    [s EXCEPT !.queue = [k \in DOMAIN @ |->
                            IF k \in Range(s.sse_queues) THEN Append(@[k], data)
                            ELSE @[k]],
              !.emit = Append(@, data)]

\* SessionState.broadcast_status
broadcast_status(s) ==
    broadcast_event(s, [type |-> "status", state |-> s.state, message |-> s.message,
                        last_error |-> s.last_error, connected |-> s.connected])

\* add_chat_message with the broadcast inside the try block, after the commit
add_chat_message_commit_first(s, role, text, dbFails) ==
    LET msg_obj == [role |-> role, text |-> text]
        s1 == [s EXCEPT !.chat_history = Append(@, msg_obj)]
    IN  IF text = "" THEN s
        ELSE IF dbFails THEN s1
        ELSE broadcast_event([s1 EXCEPT !.stored = Append(@, msg_obj)],
                             [type |-> "chat_message", message |-> msg_obj])

\* SessionState.add_chat_message; dbFails: the database session raises, which
\* is caught and printed (lines 66-67)
add_chat_message(s, role, text, dbFails) ==
    LET msg_obj == [role |-> role, text |-> text]
        s1 == [s EXCEPT !.chat_history = Append(@, msg_obj)]
        s2 == IF dbFails THEN s1 ELSE [s1 EXCEPT !.stored = Append(@, msg_obj)]
    IN  IF text = "" THEN s
        ELSE broadcast_event(s2, [type |-> "chat_message", message |-> msg_obj])

\* the connected flag SessionState.update computes from the new state
ConnectedAfter(state, old) ==
    IF state \in {"ready", "listening", "processing", "assistant_speaking"} THEN TRUE
    ELSE IF state \in {"stopped", "idle", "error"} THEN FALSE
    ELSE old

\* a call of update, as its three arguments
Call(state, message, error) == [state |-> state, message |-> message, error |-> error]

\* update that stores its error argument as it comes: an update without error
\* resets last_error to None
update_resets_error(s, state, message, error) ==
    broadcast_status(
        [s EXCEPT !.state = state,
                  !.message = message,
                  !.last_error = error,
                  !.connected = ConnectedAfter(state, @),
                  !.applied = Append(@, Call(state, message, error))])

\* update that notifies the clients only of a change of state: an update to
\* the state the session is in already broadcasts nothing
update_quiet_when_same(s, state, message, error) ==
    LET s1 == [s EXCEPT !.state = state,
                        !.message = message,
                        !.last_error = IF error # None /\ error # "" THEN error ELSE @,
                        !.connected = ConnectedAfter(state, @),
                        !.applied = Append(@, Call(state, message, error))]
    IN  IF state = s.state THEN s1 ELSE broadcast_status(s1)

\* SessionState.update(state, message, error); applied notes the call
update(s, state, message, error) ==
    broadcast_status(
        [s EXCEPT !.state = state,
                  !.message = message,
                  !.last_error = IF error # None /\ error # "" THEN error ELSE @,
                  !.connected = ConnectedAfter(state, @),
                  !.applied = Append(@, Call(state, message, error))])

(* --------------------------------------- session_manager.py: get_session *)
\* the identity of a SessionState object constructed now: one no stored object has
NewObject(reg) == 1 + Cardinality({id \in DOMAIN reg : reg[id] # 0})

\* get_session without the membership test: every lookup stores a new object
get_session_always_new(reg, id) == [reg EXCEPT ![id] = NewObject(reg)]

\* SessionManager.get_session: the registry after the lookup
get_session(reg, id) ==
    IF reg[id] = 0 THEN [reg EXCEPT ![id] = NewObject(reg)] ELSE reg

\* the sessions' fields after get_session(id): a new SessionState when it created one
Looked(id) ==
    IF get_session(sessions, id)[id] # sessions[id]
    THEN [sess EXCEPT ![id] = NewSession] ELSE sess

(* ------------------------------------------------------------------ Init *)
\* the record of a step: the operation op on session id (run r, subscriber k),
\* its input (ev, arg), the session's state (pre) and the run's
\* _response_cancelled and rearmed (preRc, armed) before it, the events it
\* broadcast (out), the cancel requests it sent upstream (cancel) and the
\* SessionState object get_session returned to it (ret), the audio chunks it
\* appended to the upstream's input buffer (sent), and its calls of update (upd)
NoStep == [op |-> "init", id |-> "", r |-> 0, k |-> 0, ev |-> "", arg |-> "",
           pre |-> "", preRc |-> "", armed |-> FALSE, out |-> <<>>, cancel |-> 0,
           ret |-> 0, sent |-> <<>>, upd |-> <<>>]

Init ==
    /\ sessions = [id \in Ids |-> 0]
    /\ sess = [id \in Ids |-> NewSession]
    /\ subs = [id \in Ids |-> [k \in 1..MaxSubs |-> [pc |-> "none", got |-> <<>>]]]
    /\ runs = [id \in Ids |-> <<>>]
    /\ ipend = [id \in Ids |-> 0]
    /\ used = [id \in Ids |-> [cmds |-> 0, events |-> 0]]
    /\ last = NoStep

\* the record of a step of operation op
Step(op) == [NoStep EXCEPT !.op = op]

\* what a request handler's step leaves for session id: the handler got its
\* SessionState s from Depends(get_session_state), which looks the id up (and
\* may create the session); emit and applied are emptied for the next step
CommitRequest(id, s, step) ==
    \E c \in {s} :
        /\ sess' = [Looked(id) EXCEPT ![id] = [c EXCEPT !.emit = <<>>, !.applied = <<>>]]
        /\ sessions' = get_session(sessions, id)
        /\ last' = [step EXCEPT !.id = id, !.out = c.emit, !.upd = c.applied,
                                !.pre = Looked(id)[id].state,
                                !.ret = get_session(sessions, id)[id]]

\* CommitHeld on a SessionState whose fields are shared by all sessions (class
\* attributes instead of instance attributes)
CommitHeldShared(id, s, step) ==
    \E c \in {s} :
        /\ sess' = [i \in Ids |-> [c EXCEPT !.emit = <<>>, !.applied = <<>>]]
        /\ last' = [step EXCEPT !.id = id, !.out = c.emit, !.upd = c.applied,
                                !.pre = sess[id].state]
        /\ UNCHANGED sessions

\* what a step of a run or of a resumed handler leaves: it holds its
\* SessionState already (self.state_manager, state) and looks nothing up
CommitHeld(id, s, step) ==
    \E c \in {s} :
        /\ sess' = [sess EXCEPT ![id] = [c EXCEPT !.emit = <<>>, !.applied = <<>>]]
        /\ last' = [step EXCEPT !.id = id, !.out = c.emit, !.upd = c.applied,
                                !.pre = sess[id].state]
        /\ UNCHANGED sessions

(* ------------------------------------- assistant.py: BasicVoiceAssistant *)
\* BasicVoiceAssistant.__init__, and the task asyncio.create_task makes for run():
\*   pc        where run() is suspended: created (not yet scheduled), connecting
\*             (connect().__aenter__), configuring (conn.session.update), loop
\*             (async for), cancelling (conn.response.cancel), closing
\*             (connect().__aexit__), done (the task is done)
\*   waiters   the stop_session handlers suspended in wait_for on the task
\*   cancelReq a CancelledError is to be thrown into the task at its await
\*   exk, exm  the exception propagating while closing: none, exception, cancelled
\*   result    how the task ended: returned, or cancelled (a CancelledError left run())
\* and, kept for the properties only:
\*   barged    a SPEECH_STARTED was handled in state assistant_speaking or
\*             processing, and no AUDIO_DONE since
\*   rearmed   an AUDIO_DONE was handled, and no AUDIO_DELTA or interrupt() since
NewRun ==
    [pc |-> "created", connection |-> FALSE, response_cancelled |-> "FalseTuple",
     stopping |-> FALSE, waiters |-> 0, cancelReq |-> FALSE, exk |-> "none", exm |-> "",
     result |-> "none", barged |-> FALSE, rearmed |-> FALSE]

\* the events the upstream stream can yield
UpstreamEvents ==
    {[type |-> ty, arg |-> ""] :
        ty \in {"SESSION_UPDATED", "SPEECH_STARTED", "SPEECH_STOPPED",
                "AUDIO_DONE", "OTHER"}}
    \cup {[type |-> "AUDIO_DELTA", arg |-> d] : d \in Deltas}
    \cup {[type |-> "ERROR", arg |-> m] : m \in ErrMsgs}

\* OnSpeechStarted without the test of line 83: every SPEECH_STARTED sets the
\* flag and cancels
OnSpeechStartedAlwaysCancels(s, rn) ==
    [s |-> broadcast_event(update(s, "listening", "Listening...", None),
                           [type |-> "control", action |-> "stop_playback"]),
     cancel |-> 1,
     rn |-> [rn EXCEPT !.response_cancelled = "True", !.pc = "cancelling"]]

\* OnSpeechStarted with lines 80 and 81 exchanged: stop_playback is broadcast
\* before the update to listening
OnSpeechStartedPlaybackFirst(s, rn) ==
    LET s1 == broadcast_event(s, [type |-> "control", action |-> "stop_playback"])
        s2 == update(s1, "listening", "Listening...", None)
    IN  IF s2.state \in {"assistant_speaking", "processing"}
        THEN [s |-> s2, cancel |-> 1,
              rn |-> [rn EXCEPT !.response_cancelled = "True", !.pc = "cancelling"]]
        ELSE [s |-> s2, rn |-> rn, cancel |-> 0]

\* _handle_event, SPEECH_STARTED branch (lines 79-85); the state tested at
\* line 83 is the one line 80 has just stored
OnSpeechStarted(s, rn) ==
    LET s1 == update(s, "listening", "Listening...", None)
        s2 == broadcast_event(s1, [type |-> "control", action |-> "stop_playback"])
    IN  IF s2.state \in {"assistant_speaking", "processing"}
        THEN [s |-> s2, cancel |-> 1,
              rn |-> [rn EXCEPT !.response_cancelled = "True", !.pc = "cancelling"]]
        ELSE [s |-> s2, rn |-> rn, cancel |-> 0]

\* OnAudioDelta with the chunk broadcast before the update to
\* assistant_speaking
OnAudioDeltaAudioFirst(s, rn, delta) ==
    IF ~Truthy(rn.response_cancelled)
    THEN LET s1 == IF delta # ""
                   THEN broadcast_event(s, [type |-> "audio", audio |-> b64encode(delta)])
                   ELSE s
             s2 == IF s.state # "assistant_speaking"
                   THEN update(s1, "assistant_speaking", "Assistant Speaking...", None)
                   ELSE s1
         IN  [s |-> s2, rn |-> rn, cancel |-> 0]
    ELSE [s |-> s, rn |-> rn, cancel |-> 0]

\* OnAudioDelta without the test of line 92: every forwarded chunk applies the
\* update to assistant_speaking
OnAudioDeltaAlwaysUpdates(s, rn, delta) ==
    IF ~Truthy(rn.response_cancelled)
    THEN LET s1 == update(s, "assistant_speaking", "Assistant Speaking...", None)
             s2 == IF delta # ""
                   THEN broadcast_event(s1, [type |-> "audio", audio |-> b64encode(delta)])
                   ELSE s1
         IN  [s |-> s2, rn |-> rn, cancel |-> 0]
    ELSE [s |-> s, rn |-> rn, cancel |-> 0]

\* _handle_event, RESPONSE_AUDIO_DELTA branch (lines 90-97)
OnAudioDelta(s, rn, delta) ==
    IF ~Truthy(rn.response_cancelled)
    THEN LET s1 == IF s.state # "assistant_speaking"
                   THEN update(s, "assistant_speaking", "Assistant Speaking...", None)
                   ELSE s
             s2 == IF delta # ""
                   THEN broadcast_event(s1, [type |-> "audio", audio |-> b64encode(delta)])
                   ELSE s1
         IN  [s |-> s2, rn |-> rn, cancel |-> 0]
    ELSE [s |-> s, rn |-> rn, cancel |-> 0]

\* OnAudioDone without line 100: the flag is not cleared
OnAudioDoneKeepsFlag(s, rn) ==
    [s |-> update(s, "ready", "Finished speaking.", None), rn |-> rn, cancel |-> 0]

\* _handle_event, RESPONSE_AUDIO_DONE branch (lines 99-101)
OnAudioDone(s, rn) ==
    [s |-> update(s, "ready", "Finished speaking.", None),
     rn |-> [rn EXCEPT !.response_cancelled = "False"], cancel |-> 0]

\* OnError without error=msg: the message is not kept
OnErrorDropsMessage(s, rn, msg) ==
    [s |-> update(s, "error", "Azure Error: " \o msg, None), rn |-> rn, cancel |-> 0]

\* _handle_event, ERROR branch (lines 103-105)
OnError(s, rn, msg) ==
    [s |-> update(s, "error", "Azure Error: " \o msg, msg), rn |-> rn, cancel |-> 0]

\* BasicVoiceAssistant._handle_event: the session, the assistant and the cancel
\* requests sent upstream after the event is handled
handle_event(s, rn, ev) ==
    IF ev.type = "SESSION_UPDATED"
    THEN [s |-> update(s, "ready", "Ready", None), rn |-> rn, cancel |-> 0]
    ELSE IF ev.type = "SPEECH_STARTED" THEN OnSpeechStarted(s, rn)
    ELSE IF ev.type = "SPEECH_STOPPED"
    THEN [s |-> update(s, "processing", "Processing...", None), rn |-> rn, cancel |-> 0]
    ELSE IF ev.type = "AUDIO_DELTA" THEN OnAudioDelta(s, rn, ev.arg)
    ELSE IF ev.type = "AUDIO_DONE" THEN OnAudioDone(s, rn)
    ELSE IF ev.type = "ERROR" THEN OnError(s, rn, ev.arg)
    ELSE [s |-> s, rn |-> rn, cancel |-> 0]

\* Finally with the stopped update in an else clause instead of finally: a
\* failed run ends in error
FinallyAsElse(s, exk, exm) ==
    IF exk = "exception"
    THEN update(s, "error", "Crash: " \o exm, exm)
    ELSE update(s, "stopped", "Session Ended", None)

\* run(), lines 68-73: the except clause (an Exception only; a CancelledError
\* passes it by) and the finally clause
Finally(s, exk, exm) ==
    LET s1 == IF exk = "exception"
              THEN update(s, "error", "Crash: " \o exm, exm)
              ELSE s
    IN  update(s1, "stopped", "Session Ended", None)

\* the assistant when run() has left its finally clause and the task is done
Ended(rn, exk) ==
    [rn EXCEPT !.pc = "done", !.connection = FALSE, !.cancelReq = FALSE,
               !.exk = "none", !.exm = "", !.barged = FALSE, !.rearmed = FALSE,
               !.result = IF exk = "cancelled" THEN "cancelled" ELSE "returned"]

\* the task of run r of session id is done (asyncio.Task.done)
TaskDone(id, r) == runs[id][r].pc = "done"

SetRun(id, r, rn) == runs' = [runs EXCEPT ![id][r] = rn]

\* run(), lines 33-40: the first step of the task, up to awaiting connect()
RunBegin(id, r) ==
    /\ r \in DOMAIN runs[id]
    /\ runs[id][r].pc = "created"
    /\ LET s == broadcast_event(sess[id], [type |-> "log", msg |-> "Connecting to endpoint..."])
       IN  CommitHeld(id, s, [Step("run_begin") EXCEPT !.r = r])
    /\ SetRun(id, r, [runs[id][r] EXCEPT !.pc = "connecting"])
    /\ UNCHANGED <<subs, ipend, used>>

\* run() resumes from the upstream call it awaits:
\*   connecting   connect() returned (lines 45-52), on to conn.session.update
\*   configuring  conn.session.update() returned: the configuration was sent
\*                (its acknowledgement is the SESSION_UPDATED event); the
\*                session is declared ready (line 61), on to the loop
\*   cancelling   the barge-in's response.cancel() returned (line 85), back to
\*                the loop
RunReturns(id, r) ==
    /\ r \in DOMAIN runs[id]
    /\ runs[id][r].pc \in {"connecting", "configuring", "cancelling"}
    /\ ~runs[id][r].cancelReq
    /\ LET rn == runs[id][r]
           st == [Step("run_returns") EXCEPT !.r = r, !.arg = rn.pc]
       IN  IF rn.pc = "connecting"
           THEN /\ CommitHeld(id, sess[id], st)
                /\ SetRun(id, r, [rn EXCEPT !.pc = "configuring", !.connection = TRUE,
                                            !.response_cancelled = "False"])
           ELSE IF rn.pc = "configuring"
           THEN /\ CommitHeld(id, update(sess[id], "ready", "Session Ready. Speak now.",
                                         None), st)
                /\ SetRun(id, r, [rn EXCEPT !.pc = "loop"])
           ELSE /\ CommitHeld(id, sess[id], st)
                /\ SetRun(id, r, [rn EXCEPT !.pc = "loop"])
    /\ UNCHANGED <<subs, ipend, used>>

\* a loop that never tests _stopping
LoopNeverBreaks(rn) == FALSE

\* run(), lines 64-65: if self._stopping: break
LoopBreaks(rn) == rn.stopping

\* run(), lines 63-66: the stream yields an event; the loop breaks if stop()
\* was called, and handles the event otherwise
RunEvent(id, r, ev) ==
    /\ r \in DOMAIN runs[id]
    /\ runs[id][r].pc = "loop"
    /\ ~runs[id][r].cancelReq
    /\ LET rn == runs[id][r]
           h == handle_event(sess[id], rn, ev)
           st == [Step("run_event") EXCEPT !.r = r, !.ev = ev.type, !.arg = ev.arg,
                                           !.preRc = rn.response_cancelled,
                                           !.armed = rn.rearmed]
           barged == IF /\ ev.type = "SPEECH_STARTED"
                        /\ sess[id].state \in {"assistant_speaking", "processing"}
                     THEN TRUE
                     ELSE IF ev.type = "AUDIO_DONE" THEN FALSE ELSE rn.barged
           rearmed == IF ev.type = "AUDIO_DONE" THEN TRUE
                      ELSE IF ev.type = "AUDIO_DELTA" THEN FALSE ELSE rn.rearmed
       IN  IF LoopBreaks(rn)
           THEN /\ CommitHeld(id, sess[id], [st EXCEPT !.op = "run_break"])
                /\ SetRun(id, r, [rn EXCEPT !.pc = "closing"])
           ELSE /\ CommitHeld(id, h.s, [st EXCEPT !.cancel = h.cancel])
                /\ SetRun(id, r, [h.rn EXCEPT !.barged = barged, !.rearmed = rearmed])
    /\ used' = [used EXCEPT ![id].events = @ + 1]
    /\ UNCHANGED <<subs, ipend>>

\* run(), line 63: the upstream stream ends, and run() leaves the async with
RunStreamEnd(id, r) ==
    /\ r \in DOMAIN runs[id]
    /\ runs[id][r].pc = "loop"
    /\ ~runs[id][r].cancelReq
    /\ CommitHeld(id, sess[id], [Step("run_stream_end") EXCEPT !.r = r])
    /\ SetRun(id, r, [runs[id][r] EXCEPT !.pc = "closing"])
    /\ UNCHANGED <<subs, ipend, used>>

\* run(): what it awaits raises an Exception with str(e) = m. connect() failing
\* goes straight to except and finally; inside the async with, the exception
\* first passes connect().__aexit__
RunFail(id, r, m) ==
    /\ r \in DOMAIN runs[id]
    /\ runs[id][r].pc \in {"connecting", "configuring", "loop", "cancelling"}
    /\ ~runs[id][r].cancelReq
    /\ LET st == [Step("run_fail") EXCEPT !.r = r, !.arg = m]
       IN  IF runs[id][r].pc = "connecting"
           THEN /\ CommitHeld(id, Finally(sess[id], "exception", m),
                              [st EXCEPT !.op = "run_exit", !.ev = "exception"])
                /\ SetRun(id, r, Ended(runs[id][r], "exception"))
           ELSE /\ CommitHeld(id, sess[id], st)
                /\ SetRun(id, r, [runs[id][r] EXCEPT !.pc = "closing",
                                                     !.exk = "exception", !.exm = m])
    /\ UNCHANGED <<subs, ipend, used>>

\* run(), lines 68-73: connect().__aexit__ returned; except, finally, and the
\* task is done
RunExit(id, r) ==
    /\ r \in DOMAIN runs[id]
    /\ runs[id][r].pc = "closing"
    /\ ~runs[id][r].cancelReq
    /\ CommitHeld(id, Finally(sess[id], runs[id][r].exk, runs[id][r].exm),
                  [Step("run_exit") EXCEPT !.r = r, !.ev = runs[id][r].exk,
                                          !.arg = runs[id][r].exm])
    /\ SetRun(id, r, Ended(runs[id][r], runs[id][r].exk))
    /\ UNCHANGED <<subs, ipend, used>>

\* the CancelledError of an expired wait_for (main.py line 141) is thrown into
\* run() where it is suspended: it is no Exception, so only finally runs
RunCancelled(id, r) ==
    /\ r \in DOMAIN runs[id]
    /\ runs[id][r].cancelReq
    /\ runs[id][r].pc \in {"connecting", "configuring", "loop", "cancelling", "closing"}
    /\ LET st == [Step("run_cancelled") EXCEPT !.r = r]
       IN  IF runs[id][r].pc \in {"connecting", "closing"}
           THEN /\ CommitHeld(id, Finally(sess[id], "cancelled", ""),
                              [st EXCEPT !.op = "run_exit", !.ev = "cancelled"])
                /\ SetRun(id, r, Ended(runs[id][r], "cancelled"))
           ELSE /\ CommitHeld(id, sess[id], st)
                /\ SetRun(id, r, [runs[id][r] EXCEPT !.pc = "closing", !.cancelReq = FALSE,
                                                     !.exk = "cancelled", !.exm = ""])
    /\ UNCHANGED <<subs, ipend, used>>

\* BasicVoiceAssistant.stop
stop(rn) == [rn EXCEPT !.stopping = TRUE]

\* interrupt() that leaves the flag to the success of the cancel request
interrupt_without_flag(rn) == rn

\* BasicVoiceAssistant.interrupt, line 115
interrupt(rn) == [rn EXCEPT !.response_cancelled = "True"]

(* ------------------------------------------------ config.py: validate_env *)
\* validate_env with AZURE_VOICE_LIVE_ENDPOINT left out of required_vars
validate_env_without_endpoint(env) ==
    LET missing == (RequiredVars \ {"AZURE_VOICE_LIVE_ENDPOINT"}) \ env
    IN  [ok |-> missing = {}, missing |-> missing]

\* validate_env: (ok, the variables the message names as missing)
validate_env(env) ==
    LET missing == RequiredVars \ env
    IN  [ok |-> missing = {}, missing |-> missing]

(* -------------------------------------------------- main.py: handlers *)
\* start_session (lines 110-131) in environment env; the step records in ev
\* whether env holds every required variable
start_session(id, env) ==
    LET s == Looked(id)[id]
        r == Len(runs[id]) + 1
        st == [Step("start_session") EXCEPT
                  !.ev = IF RequiredVars \subseteq env THEN "env complete"
                         ELSE "env incomplete"]
    IN  IF s.assistant_task # 0 /\ ~TaskDone(id, s.assistant_task)
        THEN /\ CommitRequest(id, s, [st EXCEPT !.arg = "Already running"])
             /\ UNCHANGED runs
        ELSE IF ~validate_env(env).ok
        THEN /\ CommitRequest(id, s, [st EXCEPT !.arg = "Missing env vars"])
             /\ UNCHANGED runs
        ELSE /\ LET s1 == [s EXCEPT !.assistant_instance = r]
                    s2 == update(s1, "starting", "Starting session...", None)
                    s3 == [s2 EXCEPT !.assistant_task = r]
                IN  CommitRequest(id, s3, [st EXCEPT !.arg = "started", !.r = r])
             /\ runs' = [runs EXCEPT ![id] = Append(@, NewRun)]

StartSession(id) ==
    /\ \E env \in Envs : start_session(id, env)
    /\ UNCHANGED <<subs, ipend, used>>

\* StopTail without lines 145 and 146: the task and the assistant stay
StopTailKeepsHandles(s) ==
    update(s, "stopped", "Session stopped manually.", None)

\* stop_session, lines 145-148: what follows the wait
StopTail(s) ==
    update([s EXCEPT !.assistant_task = 0, !.assistant_instance = 0],
           "stopped", "Session stopped manually.", None)

\* stop_session, lines 133-141: stop() on the assistant, then the handler is
\* suspended in wait_for unless there is no task or the task is done
StopSession(id) ==
    /\ LET s == Looked(id)[id]
           inst == s.assistant_instance
           task == s.assistant_task
           stopped == IF inst # 0
                      THEN [runs EXCEPT ![id][inst] = stop(@)]
                      ELSE runs
       IN  IF task # 0 /\ ~TaskDone(id, task)
           THEN /\ CommitRequest(id, s, [Step("stop_session") EXCEPT !.r = task,
                                                                    !.arg = "waiting"])
                /\ runs' = [stopped EXCEPT ![id][task].waiters = @ + 1]
           ELSE /\ CommitRequest(id, StopTail(s),
                                 [Step("stop_session") EXCEPT !.r = task,
                                                              !.arg = "stopped"])
                /\ runs' = stopped
    /\ used' = [used EXCEPT ![id].cmds = @ + 1]
    /\ UNCHANGED <<subs, ipend>>

\* a wait that only gives up at its timeout (asyncio.wait, or a shielded task):
\* the handler goes on and the task is left running
StopTimeoutGivesUp(id, r) ==
    /\ r \in DOMAIN runs[id]
    /\ runs[id][r].waiters > 0
    /\ runs[id][r].pc \notin {"created", "done"}
    /\ ~runs[id][r].cancelReq
    /\ runs' = [runs EXCEPT ![id][r].waiters = @ - 1]
    /\ CommitHeld(id, StopTail(sess[id]), [Step("stop_timeout") EXCEPT !.r = r])
    /\ UNCHANGED <<subs, ipend, used>>

\* stop_session, line 141: the 2 s of wait_for expire with the task not done;
\* wait_for cancels the task and goes on waiting until it is done
StopTimeout(id, r) ==
    /\ r \in DOMAIN runs[id]
    /\ runs[id][r].waiters > 0
    /\ runs[id][r].pc \notin {"created", "done"}
    /\ ~runs[id][r].cancelReq
    /\ SetRun(id, r, [runs[id][r] EXCEPT !.cancelReq = TRUE])
    /\ CommitHeld(id, sess[id], [Step("stop_timeout") EXCEPT !.r = r])
    /\ UNCHANGED <<subs, ipend, used>>

\* stop_session, lines 141-148: the awaited task is done (by itself or
\* cancelled), and the handler resumes
StopResume(id, r) ==
    /\ r \in DOMAIN runs[id]
    /\ runs[id][r].waiters > 0
    /\ TaskDone(id, r)
    /\ runs' = [runs EXCEPT ![id][r].waiters = @ - 1]
    /\ CommitHeld(id, StopTail(sess[id]),
                  [Step("stop_session") EXCEPT !.r = r, !.arg = "stopped"])
    /\ UNCHANGED <<subs, ipend, used>>

\* interrupt_session (lines 150-157) with BasicVoiceAssistant.interrupt (114-120):
\* with a live connection the handler is suspended in response.cancel()
InterruptSession(id) ==
    /\ LET s == Looked(id)[id]
           inst == s.assistant_instance
           st == [Step("interrupt") EXCEPT !.r = inst]
       IN  IF inst = 0
           THEN /\ CommitRequest(id, s, [st EXCEPT !.arg = "No session"])
                /\ UNCHANGED <<runs, ipend>>
           ELSE /\ runs' = [runs EXCEPT ![id][inst] = [interrupt(@) EXCEPT !.rearmed = FALSE]]
                /\ IF runs[id][inst].connection
                   THEN /\ CommitRequest(id, s, [st EXCEPT !.arg = "cancelling",
                                                           !.cancel = 1])
                        /\ ipend' = [ipend EXCEPT ![id] = @ + 1]
                   ELSE /\ CommitRequest(id,
                               broadcast_event(s, [type |-> "control",
                                                   action |-> "stop_playback"]),
                               [st EXCEPT !.arg = "interrupted"])
                        /\ UNCHANGED ipend
    /\ used' = [used EXCEPT ![id].cmds = @ + 1]
    /\ UNCHANGED subs

\* interrupt_session, line 155: response.cancel() returned or raised (the
\* Exception is swallowed at lines 119-120), and the handler resumes
InterruptResume(id, failed) ==
    /\ ipend[id] > 0
    /\ ipend' = [ipend EXCEPT ![id] = @ - 1]
    /\ CommitHeld(id, broadcast_event(sess[id], [type |-> "control",
                                                 action |-> "stop_playback"]),
                  [Step("interrupt") EXCEPT !.arg = IF failed THEN "cancel failed"
                                                    ELSE "interrupted"])
    /\ UNCHANGED <<subs, runs, used>>

\* send_audio without the test of self.connection
send_audio_unguarded(rn, b64) == <<b64>>

\* BasicVoiceAssistant.send_audio: the chunks appended to the upstream's input
\* audio buffer
send_audio(rn, b64) == IF rn.connection THEN <<b64>> ELSE <<>>

\* audio_chunk (lines 159-167): the request body is read before anything of the
\* session is; a chunk that is missing or empty, or a session without
\* assistant, is answered 400
AudioChunk(id, b64) ==
    /\ LET s == Looked(id)[id]
           inst == s.assistant_instance
           st == [Step("audio_chunk") EXCEPT !.r = inst, !.ev = b64]
       IN  IF inst # 0 /\ b64 # ""
           THEN CommitRequest(id, s, [st EXCEPT !.arg = "accepted",
                                                !.sent = send_audio(runs[id][inst], b64)])
           ELSE CommitRequest(id, s, [st EXCEPT !.arg = "rejected"])
    /\ UNCHANGED <<subs, runs, ipend, used>>

\* websocket_endpoint (lines 169-195): one binary message of a socket opened
\* for session id; it is encoded and given to the session's assistant, if any
WsAudio(id, data) ==
    /\ LET s == Looked(id)[id]
           inst == s.assistant_instance
           st == [Step("ws_audio") EXCEPT !.r = inst, !.ev = b64encode(data)]
       IN  IF inst # 0
           THEN CommitRequest(id, s,
                    [st EXCEPT !.arg = "accepted",
                               !.sent = send_audio(runs[id][inst], b64encode(data))])
           ELSE CommitRequest(id, s, [st EXCEPT !.arg = "ignored"])
    /\ UNCHANGED <<subs, runs, ipend, used>>

\* a call of add_chat_message on the SessionState of session id
RecordTurn(id, role, text, dbFails) ==
    /\ sessions[id] # 0
    /\ CommitHeld(id, add_chat_message(sess[id], role, text, dbFails),
                  [Step("record_turn") EXCEPT !.ev = role, !.arg = text])
    /\ UNCHANGED <<subs, runs, ipend, used>>

(* ------------------------------------- main.py: sse_endpoint (/events) *)
\* the status event event_generator yields first (lines 87-94)
Snapshot(s) ==
    [type |-> "status", state |-> s.state, message |-> s.message,
     connected |-> s.connected]

\* Subscribe without the first yield: the subscriber only waits on its queue
SubscribeNoSnapshot(id, k) ==
    /\ k \in 1..MaxSubs
    /\ subs[id][k].pc = "none"
    /\ \A j \in 1..(k - 1) : subs[id][j].pc # "none"
    /\ CommitRequest(id, [Looked(id)[id] EXCEPT !.sse_queues = Append(@, k)],
                     [Step("subscribe") EXCEPT !.k = k])
    /\ subs' = [subs EXCEPT ![id][k] = [pc |-> "open", got |-> <<>>]]
    /\ UNCHANGED <<runs, ipend, used>>

\* event_generator, lines 84-94: a new queue is registered and the status
\* snapshot is yielded, in one stretch
Subscribe(id, k) ==
    /\ k \in 1..MaxSubs
    /\ subs[id][k].pc = "none"
    /\ \A j \in 1..(k - 1) : subs[id][j].pc # "none"
    /\ LET s == Looked(id)[id]
       IN  /\ CommitRequest(id, [s EXCEPT !.sse_queues = Append(@, k)],
                            [Step("subscribe") EXCEPT !.k = k])
           /\ subs' = [subs EXCEPT ![id][k] = [pc |-> "open", got |-> <<Snapshot(s)>>]]
    /\ UNCHANGED <<runs, ipend, used>>

\* event_generator, lines 100-101: queue.get() returns and the event is yielded
Deliver(id, k) ==
    /\ k \in 1..MaxSubs
    /\ subs[id][k].pc = "open"
    /\ sess[id].queue[k] # <<>>
    /\ subs' = [subs EXCEPT ![id][k].got = Append(@, Head(sess[id].queue[k]))]
    /\ CommitHeld(id, [sess[id] EXCEPT !.queue[k] = Tail(@)],
                  [Step("deliver") EXCEPT !.k = k])
    /\ UNCHANGED <<runs, ipend, used>>

\* event_generator, lines 98-106: the client is gone; the queue is
\* unregistered and the generator returns (its queue is garbage from here on)
Disconnect(id, k) ==
    /\ k \in 1..MaxSubs
    /\ subs[id][k].pc = "open"
    /\ subs' = [subs EXCEPT ![id][k] = [pc |-> "closed", got |-> <<>>]]
    /\ CommitHeld(id, [sess[id] EXCEPT !.sse_queues =
                                         IF k \in Range(@) THEN SeqRemove(@, k) ELSE @,
                                      !.queue[k] = <<>>],
                  [Step("disconnect") EXCEPT !.k = k])
    /\ UNCHANGED <<runs, ipend, used>>

(* ------------------------------------------------------- specifications *)
\* one step of a run of a session, among its first maxRuns runs and while
\* the session has received fewer than maxEvents events
RunStep(id, maxRuns, maxEvents) ==
    \E r \in 1..maxRuns :
        \/ RunBegin(id, r)
        \/ RunReturns(id, r)
        \/ /\ used[id].events < maxEvents
           /\ \E ev \in UpstreamEvents : RunEvent(id, r, ev)
        \/ RunStreamEnd(id, r)
        \/ \E m \in ErrMsgs : RunFail(id, r, m)
        \/ RunExit(id, r)
        \/ RunCancelled(id, r)

\* one step of a command handler of a session, within maxRuns runs and
\* maxCmds stop and interrupt commands
CommandStep(id, maxRuns, maxCmds) ==
    \/ StartSession(id) /\ Len(runs'[id]) <= maxRuns
    \/ used[id].cmds < maxCmds /\ StopSession(id)
    \/ \E r \in 1..maxRuns : StopTimeout(id, r)
    \/ \E r \in 1..maxRuns : StopResume(id, r)
    \/ used[id].cmds < maxCmds /\ InterruptSession(id)
    \/ \E failed \in BOOLEAN : InterruptResume(id, failed)

\* one step of an SSE subscriber of a session
SubscriberStep(id) ==
    \E k \in 1..MaxSubs : Subscribe(id, k) \/ Deliver(id, k) \/ Disconnect(id, k)

\* one session, one run: the turn-taking of the run loop and the commands
Next ==
    \E id \in LifeIds :
        RunStep(id, MaxRuns, MaxEvents) \/ CommandStep(id, MaxRuns, MaxCmds)

Spec == Init /\ [][Next]_vars

\* one session, several runs: stop and start racing with the runs
NextRestart ==
    \E id \in LifeIds :
        \/ RunStep(id, RestartRuns, RestartEvents)
        \/ CommandStep(id, RestartRuns, RestartCmds)

SpecRestart == Init /\ [][NextRestart]_vars

\* one session that runs once, and its SSE subscribers
NextFan ==
    \E id \in LifeIds :
        \/ StartSession(id) /\ Len(runs'[id]) <= 1
        \/ RunBegin(id, 1)
        \/ RunReturns(id, 1)
        \/ /\ used[id].events < 1
           /\ \E ev \in UpstreamEvents : RunEvent(id, 1, ev)
        \/ RunStreamEnd(id, 1)
        \/ RunExit(id, 1)
        \/ SubscriberStep(id)

SpecFan == Init /\ [][NextFan]_vars

\* every session id: the registry, and sessions side by side; each session
\* runs once and is stopped at most once
NextReg ==
    \E id \in Ids :
        \/ StartSession(id) /\ Len(runs'[id]) <= 1
        \/ used[id].cmds < 1 /\ StopSession(id)
        \/ StopResume(id, 1)
        \/ RunBegin(id, 1)
        \/ RunReturns(id, 1)
        \/ /\ used[id].events < RegEvents
           /\ \E ev \in UpstreamEvents : RunEvent(id, 1, ev)
        \/ RunStreamEnd(id, 1)
        \/ RunExit(id, 1)

SpecReg == Init /\ [][NextReg]_vars

\* one session and its shutdown: start, stop, and the steps of the runs
NextStop ==
    \E id \in LifeIds :
        \/ StartSession(id) /\ Len(runs'[id]) <= StopRuns
        \/ used[id].cmds < StopCmds /\ StopSession(id)
        \/ \E r \in 1..StopRuns : StopTimeout(id, r) \/ StopResume(id, r)
        \/ RunStep(id, StopRuns, StopEvents)

\* what the event loop guarantees a run: a created task is scheduled, the
\* timeout of a pending wait_for expires, a CancelledError thrown into the
\* task is raised at its await, and leaving the connection's scope completes.
\* Nothing makes the upstream answer or send an event.
RunFairness ==
    \A id \in LifeIds : \A r \in 1..StopRuns :
        /\ WF_vars(RunBegin(id, r))
        /\ WF_vars(StopTimeout(id, r))
        /\ WF_vars(RunCancelled(id, r))
        /\ WF_vars(RunExit(id, r))

SpecStop == Init /\ [][NextStop]_vars /\ RunFairness

\* one session that runs once and may be stopped once, and the audio sent to it
NextAudio ==
    \E id \in LifeIds :
        \/ StartSession(id) /\ Len(runs'[id]) <= 1
        \/ used[id].cmds < 1 /\ StopSession(id)
        \/ StopResume(id, 1)
        \/ RunBegin(id, 1)
        \/ RunReturns(id, 1)
        \/ /\ used[id].events < AudioEvents
           /\ \E ev \in UpstreamEvents : RunEvent(id, 1, ev)
        \/ RunStreamEnd(id, 1)
        \/ RunExit(id, 1)
        \/ \E d \in Deltas : AudioChunk(id, b64encode(d))
        \/ \E d \in Deltas : WsAudio(id, d)

SpecAudio == Init /\ [][NextAudio]_vars

\* one session, one subscriber, and the chat messages recorded on the session
\* while its transcript holds fewer than MaxTurns
NextTurns ==
    \E id \in LifeIds :
        \/ StartSession(id) /\ Len(runs'[id]) <= 1
        \/ Subscribe(id, 1)
        \/ Deliver(id, 1)
        \/ /\ Len(sess[id].chat_history) < MaxTurns
           /\ \E role \in Roles, text \in Texts, dbFails \in BOOLEAN :
                 RecordTurn(id, role, text, dbFails)

SpecTurns == Init /\ [][NextTurns]_vars

\* one session that runs once, a first subscriber that never reads its queue
\* and a second one that does
NextStall ==
    \E id \in LifeIds :
        \/ StartSession(id) /\ Len(runs'[id]) <= 1
        \/ RunBegin(id, 1)
        \/ RunReturns(id, 1)
        \/ /\ used[id].events < StallEvents
           /\ \E ev \in UpstreamEvents : RunEvent(id, 1, ev)
        \/ RunStreamEnd(id, 1)
        \/ RunExit(id, 1)
        \/ Subscribe(id, 1)
        \/ Subscribe(id, 2)
        \/ Deliver(id, 2)

SpecStall == Init /\ [][NextStall]_vars

\* two sessions side by side, each started once. The first runs, receives one
\* upstream event, a stop or an interrupt, audio and a chat message; the
\* second stays connecting, and has a subscriber that reads its queue
NextIso ==
    \/ \E id \in Ids :
          \/ StartSession(id) /\ Len(runs'[id]) <= 1
          \/ RunBegin(id, 1)
    \/ \E id \in Ids \ LifeIds : Subscribe(id, 1) \/ Deliver(id, 1)
    \/ \E id \in LifeIds :
          \/ RunReturns(id, 1)
          \/ /\ used[id].events < 1
             /\ \E ev \in UpstreamEvents : RunEvent(id, 1, ev)
          \/ RunStreamEnd(id, 1)
          \/ RunExit(id, 1)
          \/ used[id].cmds < 1 /\ StopSession(id)
          \/ StopResume(id, 1)
          \/ used[id].cmds < 1 /\ InterruptSession(id)
          \/ \E failed \in BOOLEAN : InterruptResume(id, failed)
          \/ AudioChunk(id, b64encode("PCM"))
          \/ /\ sess[id].chat_history = <<>>
             /\ \E role \in Roles : RecordTurn(id, role, "hello", FALSE)

SpecIso == Init /\ [][NextIso]_vars

\* one session that is started, fails or is told of errors, is stopped and
\* started again; the upstream reports errors or the start of speech
NextErr ==
    \E id \in LifeIds :
        \/ StartSession(id) /\ Len(runs'[id]) <= ErrRuns
        \/ used[id].cmds < ErrCmds /\ StopSession(id)
        \/ \E r \in 1..ErrRuns :
              \/ StopResume(id, r)
              \/ RunBegin(id, r)
              \/ RunReturns(id, r)
              \/ /\ used[id].events < ErrEvents
                 /\ \/ \E m \in ErrTexts : RunEvent(id, r, [type |-> "ERROR", arg |-> m])
                    \/ RunEvent(id, r, [type |-> "SPEECH_STARTED", arg |-> ""])
              \/ RunStreamEnd(id, r)
              \/ \E m \in ErrTexts : RunFail(id, r, m)
              \/ RunExit(id, r)

SpecErr == Init /\ [][NextErr]_vars

\* the events of an utterance: its chunks, its end, and the end of the user's
\* speech before it
PlayEventSet ==
    {[type |-> "AUDIO_DELTA", arg |-> d] : d \in Deltas}
    \cup {[type |-> ty, arg |-> ""] : ty \in {"AUDIO_DONE", "SPEECH_STOPPED"}}

\* one session that runs once and receives the events of utterances, and a
\* subscriber that joins at any moment and reads its queue
NextPlay ==
    \E id \in LifeIds :
        \/ StartSession(id) /\ Len(runs'[id]) <= 1
        \/ RunBegin(id, 1)
        \/ RunReturns(id, 1)
        \/ /\ used[id].events < PlayEvents
           /\ \E ev \in PlayEventSet : RunEvent(id, 1, ev)
        \/ RunStreamEnd(id, 1)
        \/ RunExit(id, 1)
        \/ Subscribe(id, 1)
        \/ Deliver(id, 1)

SpecPlay == Init /\ [][NextPlay]_vars

(* ---------------------------------------------------------- properties *)
\* the session the last step acted on, and the assistant of the run it was a step of
LastSession == sess[last.id]
LastRun == runs[last.id][last.r]

\* out holds an audio event
HasAudio(out) == \E i \in 1..Len(out) : out[i].type = "audio"

\* the status event update() broadcasts for session fields s
StatusOf(s) ==
    [type |-> "status", state |-> s.state, message |-> s.message,
     last_error |-> s.last_error, connected |-> s.connected]

\* the runs of session id that have not terminated
LiveRuns(id) == {r \in DOMAIN runs[id] : runs[id][r].pc # "done"}

\* C1: when the run loop handles SPEECH_STARTED while the session is
\* assistant_speaking or processing, the state becomes listening,
\* _response_cancelled becomes true and one cancel request is sent upstream.
C1_BargeIn ==
    (/\ last.op = "run_event"
     /\ last.ev = "SPEECH_STARTED"
     /\ last.pre \in {"assistant_speaking", "processing"})
    => /\ LastSession.state = "listening"
       /\ LastRun.response_cancelled = "True"
       /\ last.cancel = 1

\* C2: after a SPEECH_STARTED handled while the session was assistant_speaking
\* or processing, no AUDIO_DELTA handled before the next AUDIO_DONE broadcasts
\* an audio event.
C2_Suppressed ==
    (/\ last.op = "run_event"
     /\ last.ev = "AUDIO_DELTA"
     /\ LastRun.barged)
    => ~HasAudio(last.out)

\* C3: in every reachable state of a session, connected is true if and only
\* if the state is ready, listening, processing or assistant_speaking.
C3_ConnectedIffState ==
    \A id \in Ids :
        sessions[id] # 0 =>
            (sess[id].connected <=>
                sess[id].state \in {"ready", "listening", "processing",
                                    "assistant_speaking"})

\* C4: a session never has more than one run that has not terminated.
C4_OneLiveRun == \A id \in Ids : Cardinality(LiveRuns(id)) <= 1

\* what C5 says of every end of run(), but for the lastError of a failure: the
\* task is done, the last update applied is the one to stopped, a failure is
\* first turned into an update to error and does not leave run()
RunEndsStopped ==
    LET out == last.out
        n == Len(out)
    IN  /\ LastRun.pc = "done"
        /\ n >= 1
        /\ out[n] = StatusOf(LastSession)
        /\ LastSession.state = "stopped"
        /\ LastSession.message = "Session Ended"
        /\ IF last.ev = "exception"
           THEN /\ n = 2
                /\ out[1].type = "status"
                /\ out[1].state = "error"
                /\ out[1].message = "Crash: " \o last.arg
                /\ LastRun.result = "returned"
           ELSE n = 1

\* C5 as amended: every end of run() (stream end, failure in setup or in the
\* loop, stop(), cancellation) applies a last update to stopped; a failure
\* first applies an update to error, which sets lastError to the failure
\* message when that message is not empty, and does not leave run().
C5_RunEndsStopped ==
    last.op = "run_exit" =>
        /\ RunEndsStopped
        /\ (last.ev = "exception" /\ last.arg # "") =>
              /\ last.out[1].last_error = last.arg
              /\ LastSession.last_error = last.arg

\* C5 as stated: the update to error carries the failure message in
\* lastError, whatever the message.
C5_AsStated ==
    last.op = "run_exit" =>
        /\ RunEndsStopped
        /\ last.ev = "exception" => last.out[1].last_error = last.arg

\* a run that failed inside its event loop, with a message, has ended
C5_Witness ==
    /\ last.op = "run_exit"
    /\ last.ev = "exception"
    /\ last.arg = "quota exceeded"
    /\ last.pre \in {"listening", "assistant_speaking"}

\* what subscriber k of session id has been sent: the events it yielded and
\* those waiting in its queue
Sent(id, k) == subs[id][k].got \o sess[id].queue[k]

\* the queue of subscriber k is registered with session id
Registered(id, k) == k \in Range(sess[id].sse_queues)

\* C6: every step adds the events it broadcast, once each and in order, to
\* what every subscriber registered before and after the step has been sent,
\* and nothing else; a subscriber registered by the step has been sent its
\* snapshot only, none of the events broadcast before.
C6_FanOut ==
    [][\A id \in Ids, k \in 1..MaxSubs :
          /\ (Registered(id, k) /\ Registered(id, k)') =>
                Sent(id, k)' = Sent(id, k) \o (IF last'.id = id THEN last'.out ELSE <<>>)
          /\ (~Registered(id, k) /\ Registered(id, k)') =>
                Sent(id, k)' = <<Snapshot(sess[id])>>]_vars

\* two subscribers, the first registered earlier than the second, have both
\* been sent the events an upstream event made the run broadcast
C6_Witness ==
    /\ last.op = "run_event"
    /\ Len(last.out) = 2
    /\ Registered(last.id, 1)
    /\ Registered(last.id, 2)
    /\ Len(Sent(last.id, 1)) > Len(Sent(last.id, 2))
    /\ Len(Sent(last.id, 2)) > 2

\* C7: the first event a subscriber yields is the status snapshot of the
\* session's state, message and connected at the step that registered it; it
\* stays the first, ahead of every event broadcast since.
C7_LateJoin ==
    [][\A id \in Ids, k \in 1..MaxSubs :
          /\ (subs[id][k].pc # "open" /\ subs'[id][k].pc = "open") =>
                /\ subs'[id][k].got = <<[type |-> "status", state |-> sess[id].state,
                                        message |-> sess[id].message,
                                        connected |-> sess[id].connected]>>
                /\ sess'[id].queue[k] = <<>>
          /\ (subs[id][k].pc = "open" /\ subs'[id][k].pc = "open") =>
                Head(subs'[id][k].got) = Head(subs[id][k].got)]_vars

\* a subscriber that joined a connected session has yielded its snapshot and
\* then an event broadcast later
C7_Witness ==
    \E id \in Ids, k \in 1..MaxSubs :
        /\ subs[id][k].pc = "open"
        /\ Len(subs[id][k].got) >= 2
        /\ subs[id][k].got[1].state = "ready"
        /\ subs[id][k].got[1].connected
        /\ subs[id][k].got[2].type = "status"
        /\ subs[id][k].got[2].state = "stopped"

\* C8: a lookup returns the object stored for the id; an object once stored
\* for an id is never removed or replaced; distinct ids have distinct objects;
\* the session a lookup creates is in state idle when the handler gets it.
C8_Registry ==
    [][/\ \A id \in Ids : sessions[id] # 0 => sessions'[id] = sessions[id]
       /\ \A a, b \in Ids :
             (a # b /\ sessions'[a] # 0 /\ sessions'[b] # 0) => sessions'[a] # sessions'[b]
       /\ last'.ret # 0 => last'.ret = sessions'[last'.id]
       /\ \A id \in Ids :
             (sessions[id] = 0 /\ sessions'[id] # 0) =>
                (last'.id = id /\ last'.pre = "idle")]_vars

\* both sessions exist, and a handler has looked up one that had left idle
C8_Witness ==
    /\ \A id \in Ids : sessions[id] # 0
    /\ last.ret # 0
    /\ last.pre = "ready"
    /\ \E id \in Ids : id # last.id /\ sess[id].state = "listening"

\* what C9 says of AUDIO_DONE: _response_cancelled is False and the state ready
AudioDoneRearms ==
    (last.op = "run_event" /\ last.ev = "AUDIO_DONE") =>
        /\ LastRun.response_cancelled = "False"
        /\ LastSession.state = "ready"

\* the last step handled the first AUDIO_DELTA after an AUDIO_DONE, with no
\* interrupt() in between
NextDeltaAfterDone ==
    last.op = "run_event" /\ last.ev = "AUDIO_DELTA" /\ last.armed

\* C9 as amended: after the run loop handles AUDIO_DONE, _response_cancelled
\* is False and the state is ready; the next AUDIO_DELTA handled, with no
\* interrupt in between, moves the state to assistant_speaking and, when its
\* payload is not empty, is forwarded as one audio event carrying the payload
\* in base64 (an empty payload broadcasts no audio event).
C9_ReArm ==
    /\ AudioDoneRearms
    /\ NextDeltaAfterDone =>
          /\ LastSession.state = "assistant_speaking"
          /\ IF last.arg # ""
             THEN /\ last.out # <<>>
                  /\ last.out[Len(last.out)] =
                        [type |-> "audio", audio |-> b64encode(last.arg)]
                  /\ \A i \in 1..(Len(last.out) - 1) : last.out[i].type # "audio"
             ELSE ~HasAudio(last.out)

\* C9 as stated: the next AUDIO_DELTA is forwarded as an audio event, whatever
\* its payload.
C9_AsStated ==
    /\ AudioDoneRearms
    /\ NextDeltaAfterDone =>
          (LastSession.state = "assistant_speaking" /\ HasAudio(last.out))

\* an interrupt has set the flag, AUDIO_DONE has cleared it, and the chunk
\* that follows is forwarded
C9_Witness ==
    /\ NextDeltaAfterDone
    /\ last.arg = "PCM"
    /\ last.pre = "ready"
    /\ used[last.id].cmds = 1
    /\ ipend[last.id] = 0
    /\ ~LastRun.stopping
    /\ HasAudio(last.out)

\* what C10 says of the exit of the run loop: it leaves the session stopped
ExitLeavesStopped ==
    last.op = "run_exit" => (LastRun.pc = "done" /\ LastSession.state = "stopped")

C11_StopBreaksLoop ==
    [][\A id \in Ids : \A r \in 1..Len(runs[id]) :
          /\ (/\ runs[id][r].stopping
              /\ runs[id][r].pc = "loop"
              /\ used'[id].events = used[id].events + 1
              /\ last'.id = id
              /\ last'.r = r) =>
                /\ last'.op = "run_break"
                /\ last'.out = <<>>
                /\ last'.cancel = 0
                /\ sess'[id] = sess[id]
                /\ subs' = subs
                /\ runs'[id][r] = [runs[id][r] EXCEPT !.pc = "closing"]
          /\ (/\ runs[id][r].stopping
              /\ runs[id][r].pc = "closing"
              /\ runs[id][r].exk = "none"
              /\ runs'[id][r].pc # "closing") =>
                /\ runs'[id][r].pc = "done"
                /\ last'.op = "run_exit"
                /\ sess'[id].state = "stopped"
                /\ sess'[id].message = "Session Ended"]_vars

\* stop() was called while the session was listening, and the loop has broken
\* on a SPEECH_STOPPED it did not handle
C11_Witness ==
    /\ last.op = "run_break"
    /\ last.ev = "SPEECH_STOPPED"
    /\ last.pre = "listening"
    /\ LastSession.state = "listening"
    /\ LastRun.pc = "closing"

\* run r of session id exists, its stop() was called and its task is not done
StopPending(id, r) ==
    r \in DOMAIN runs[id] /\ runs[id][r].stopping /\ runs[id][r].pc # "done"

\* run r of session id has terminated
Terminated(id, r) == r \in DOMAIN runs[id] /\ runs[id][r].pc = "done"

\* C12: a run whose stop() was called eventually terminates; the step that
\* terminates it leaves the session stopped; and the first upstream message
\* its loop receives after the stop() is the last one (it leaves the loop,
\* and a run that has left the loop never returns to it).
C12_StopEnds ==
    /\ \A id \in LifeIds : \A r \in 1..StopRuns : StopPending(id, r) ~> Terminated(id, r)
    /\ [][\A id \in LifeIds : \A r \in 1..Len(runs[id]) :
             /\ (/\ runs[id][r].stopping
                 /\ used'[id].events = used[id].events + 1
                 /\ last'.id = id
                 /\ last'.r = r) => runs'[id][r].pc = "closing"
             /\ runs[id][r].pc = "closing" => runs'[id][r].pc \in {"closing", "done"}
             /\ runs[id][r].pc = "done" => runs'[id][r].pc = "done"
             /\ (runs[id][r].pc # "done" /\ runs'[id][r].pc = "done") =>
                   sess'[id].state = "stopped"]_vars

\* a run stopped while it waited in its loop for the next event has been
\* cancelled by the stop handler's wait_for, and the session is stopped
C12_Witness ==
    /\ last.op = "run_exit"
    /\ last.ev = "cancelled"
    /\ last.pre = "listening"
    /\ LastRun.stopping
    /\ LastRun.pc = "done"
    /\ LastRun.result = "cancelled"
    /\ LastSession.state = "stopped"

\* C13: an accepted start leaves the session in state starting, and the
\* session goes from starting to ready only in the step that handles the
\* upstream's SESSION_UPDATED event, the acknowledgement of the configuration.
C13_ReadyAfterAck ==
    [][\A id \in Ids :
          /\ (last'.op = "start_session" /\ last'.arg = "started" /\ last'.id = id) =>
                sess'[id].state = "starting"
          /\ (sess[id].state = "starting" /\ sess'[id].state = "ready") =>
                (last'.op = "run_event" /\ last'.ev = "SESSION_UPDATED")]_vars

\* C14: when the run loop handles SPEECH_STARTED while the session is ready,
\* the state becomes listening (one status event, then stop_playback), no
\* cancel request is sent upstream and _response_cancelled is left as it was.
C14_SpeechWhileReady ==
    (last.op = "run_event" /\ last.ev = "SPEECH_STARTED" /\ last.pre = "ready") =>
        /\ LastSession.state = "listening"
        /\ last.out = <<StatusOf(LastSession),
                        [type |-> "control", action |-> "stop_playback"]>>
        /\ last.cancel = 0
        /\ LastRun.response_cancelled = last.preRc
        /\ LastRun.pc = "loop"

\* SPEECH_STARTED was handled in state ready by a run whose flag an interrupt
\* had set, and the flag is still set
C14_Witness ==
    /\ last.op = "run_event"
    /\ last.ev = "SPEECH_STARTED"
    /\ last.pre = "ready"
    /\ last.preRc = "True"
    /\ LastRun.response_cancelled = "True"
    /\ LastSession.state = "listening"

\* C15: a step in which send_audio is called leaves the sessions, their
\* assistants and the subscribers as they were and broadcasts nothing; it
\* appends nothing upstream when the assistant has no connection, and exactly
\* the chunk it was given when it has one. A step that does not call it
\* appends nothing either.
C15_SendAudio ==
    [][last'.op \in {"audio_chunk", "ws_audio"} =>
          /\ sess' = sess
          /\ runs' = runs
          /\ subs' = subs
          /\ last'.out = <<>>
          /\ IF last'.arg = "accepted"
             THEN /\ last'.r # 0
                  /\ last'.r = sess[last'.id].assistant_instance
                  /\ last'.sent = IF runs[last'.id][last'.r].connection
                                  THEN <<last'.ev>> ELSE <<>>
             ELSE last'.sent = <<>>]_vars

\* a chunk was given to the assistant of a run that has ended by itself: it
\* is accepted, and nothing is sent
C15_Witness ==
    /\ last.op = "ws_audio"
    /\ last.arg = "accepted"
    /\ last.ev = "UENN"
    /\ last.sent = <<>>
    /\ LastRun.pc = "done"
    /\ ~LastRun.stopping
    /\ LastSession.state = "stopped"

\* the last step is the return of interrupt() to its handler: at once when the
\* assistant has no connection, else when response.cancel() returned or raised
InterruptReturned ==
    last.op = "interrupt" /\ last.arg \in {"interrupted", "cancel failed"}

\* C16 as amended: interrupt() sets _response_cancelled to True before it
\* requests the cancel; the flag is cleared again only by the run handling
\* AUDIO_DONE (or by connect() returning), so it is still True when interrupt()
\* returns unless the run loop handled AUDIO_DONE while the cancel request was
\* pending. Whether the cancel request succeeds or fails, its return changes
\* no assistant (the run loop keeps running, the flag stays) and no session
\* state, message, lastError or connected: it only broadcasts stop_playback.
C16_Interrupt ==
    [][\A id \in Ids :
          /\ (last'.op = "interrupt" /\ last'.id = id /\ last'.r # 0) =>
                runs'[id][last'.r].response_cancelled = "True"
          /\ (last'.op = "interrupt" /\ last'.id = id /\ last'.r = 0
                /\ last'.arg \in {"interrupted", "cancel failed"}) =>
                /\ runs' = runs
                /\ StatusOf(sess'[id]) = StatusOf(sess[id])
                /\ last'.out = <<[type |-> "control", action |-> "stop_playback"]>>
          /\ \A r \in 1..Len(runs[id]) :
                (/\ runs[id][r].response_cancelled = "True"
                 /\ runs'[id][r].response_cancelled # "True") =>
                    /\ last'.id = id
                    /\ last'.r = r
                    /\ \/ last'.op = "run_event" /\ last'.ev = "AUDIO_DONE"
                       \/ last'.op = "run_returns" /\ last'.arg = "connecting"]_vars

\* C16 as stated: whenever interrupt() returns, _response_cancelled of the
\* assistant (the only one the session has had) is True.
C16_AsStated ==
    (InterruptReturned /\ Len(runs[last.id]) = 1) =>
        runs[last.id][1].response_cancelled = "True"

\* the cancel request of an interrupt issued while the assistant was speaking
\* has failed: the flag is set, the run is in its loop, the state is unchanged
C16_Witness ==
    /\ last.op = "interrupt"
    /\ last.arg = "cancel failed"
    /\ Len(runs[last.id]) = 1
    /\ runs[last.id][1].response_cancelled = "True"
    /\ runs[last.id][1].pc = "loop"
    /\ LastSession.state = "assistant_speaking"

\* C17: a start command handled while a required variable is missing from
\* the environment creates no assistant and no task, leaves every session
\* field and every subscriber as they were and broadcasts nothing; it is
\* answered "Missing env vars" (or "Already running" when a run is live).
C17_MissingConfig ==
    [][(last'.op = "start_session" /\ last'.ev = "env incomplete") =>
          /\ runs' = runs
          /\ sess' = sess
          /\ subs' = subs
          /\ last'.out = <<>>
          /\ last'.arg =
                IF /\ sess[last'.id].assistant_task # 0
                   /\ runs[last'.id][sess[last'.id].assistant_task].pc # "done"
                THEN "Already running" ELSE "Missing env vars"]_vars

\* a session whose run has ended was started again with a variable missing:
\* the start is refused and the session is as the run left it
C17_Witness ==
    /\ last.op = "start_session"
    /\ last.ev = "env incomplete"
    /\ last.arg = "Missing env vars"
    /\ last.pre = "stopped"
    /\ LastSession.state = "stopped"
    /\ LastSession.last_error = "quota exceeded"
    /\ Len(runs[last.id]) = 1

\* s is t with nothing, or more, appended
IsPrefix(s, t) == Len(s) <= Len(t) /\ SubSeq(t, 1, Len(s)) = s

\* C20: no step changes or removes an entry of a session's chat_history; a
\* step that records a turn with a non-empty text appends the one entry
\* {role, text} to it and broadcasts one chat_message event carrying that
\* entry, whether the database took the row or not, and changes no other
\* field of the session but the stored rows.
C20_RecordTurn ==
    [][/\ \A id \in Ids : IsPrefix(sess[id].chat_history, sess'[id].chat_history)
       /\ (last'.op = "record_turn" /\ last'.arg # "") =>
             LET msg_obj == [role |-> last'.ev, text |-> last'.arg]
                 s == sess[last'.id]
             IN  /\ sess'[last'.id].chat_history = Append(s.chat_history, msg_obj)
                 /\ last'.out = <<[type |-> "chat_message", message |-> msg_obj]>>
                 /\ sess'[last'.id].stored \in {s.stored, Append(s.stored, msg_obj)}
                 /\ [sess'[last'.id] EXCEPT !.chat_history = <<>>, !.stored = <<>>,
                                            !.queue = <<>>]
                       = [s EXCEPT !.chat_history = <<>>, !.stored = <<>>,
                                   !.queue = <<>>]]_vars

\* a second turn was recorded while the database failed: it is in the
\* transcript, after the first, and a subscriber has been sent it
C20_Witness ==
    /\ last.op = "record_turn"
    /\ Len(LastSession.chat_history) = 2
    /\ Len(LastSession.stored) = 1
    /\ LastSession.stored[1] = LastSession.chat_history[1]
    /\ LastSession.chat_history[2] = [role |-> "assistant", text |-> "hello"]
    /\ Registered(last.id, 1)
    /\ Sent(last.id, 1)[Len(Sent(last.id, 1))] =
          [type |-> "chat_message", message |-> LastSession.chat_history[2]]

\* C19: whatever the backlog of the queues, a run that is to broadcast can
\* take its step, and a subscriber with a pending event can be given it; a
\* step of a session puts every event it broadcasts, in order, at the end of
\* every registered queue of the session, however long the queue already is.
C19_NeverBlocks ==
    /\ [](\A id \in LifeIds :
             /\ (Len(runs[id]) >= 1 /\ runs[id][1].pc = "created") =>
                   ENABLED RunBegin(id, 1)
             /\ (Len(runs[id]) >= 1 /\ runs[id][1].pc = "closing") =>
                   ENABLED RunExit(id, 1)
             /\ (subs[id][2].pc = "open" /\ sess[id].queue[2] # <<>>) =>
                   ENABLED Deliver(id, 2))
    /\ [][\A id \in LifeIds, k \in 1..MaxSubs :
             (/\ Registered(id, k)
              /\ Registered(id, k)'
              /\ last'.id = id
              /\ last'.op # "deliver") =>
                 sess'[id].queue[k] = sess[id].queue[k] \o last'.out]_vars

\* the first subscriber has read nothing and has five events or more in its
\* queue; the second has just been given the last event of its own
C19_Witness ==
    /\ last.op = "deliver"
    /\ last.k = 2
    /\ subs[last.id][1].pc = "open"
    /\ Len(subs[last.id][1].got) = 1
    /\ Len(LastSession.queue[1]) >= 5
    /\ LastSession.queue[2] = <<>>
    /\ Len(subs[last.id][2].got) >= 5
    /\ subs[last.id][2].got[Len(subs[last.id][2].got)]
          = LastSession.queue[1][Len(LastSession.queue[1])]

\* C18: a step of one session (a command, an upstream event, a subscriber's
\* step, a chat message) leaves every other session as it was: its registry
\* entry, its fields (state, message, lastError, connected, transcript, task
\* and assistant, subscriber queues), its assistants and its subscribers, so
\* that a subscriber is never sent an event of another session.
C18_Isolation ==
    [][\A b \in Ids :
          b # last'.id =>
             /\ sessions'[b] = sessions[b]
             /\ sess'[b] = sess[b]
             /\ runs'[b] = runs[b]
             /\ subs'[b] = subs[b]
             /\ ipend'[b] = ipend[b]
             /\ \A k \in 1..MaxSubs : Sent(b, k)' = Sent(b, k)]_vars

\* the first session has handled SPEECH_STARTED and broadcast two events,
\* while the second is starting with two events unread in its subscriber's queue
C18_Witness ==
    /\ last.id = "a"
    /\ last.op = "run_event"
    /\ Len(last.out) = 2
    /\ sess["a"].state = "listening"
    /\ sess["b"].state = "starting"
    /\ Registered("b", 1)
    /\ Len(sess["b"].queue[1]) = 2
    /\ runs["b"][1].pc = "connecting"

\* C21: last_error, once a string, is never None again, whatever the step (a
\* start, a stop, an update to ready, listening or stopped); it changes only
\* in a step whose update carries an error message that is not empty (an
\* upstream error event, or the failure of a run), and then to that message.
C21_Sticky ==
    [][\A id \in Ids :
          /\ sess[id].last_error # None => sess'[id].last_error # None
          /\ sess'[id].last_error # sess[id].last_error =>
                /\ last'.id = id
                /\ \/ last'.op = "run_event" /\ last'.ev = "ERROR"
                   \/ last'.op = "run_exit" /\ last'.ev = "exception"
                /\ last'.arg # ""
                /\ sess'[id].last_error = last'.arg]_vars

\* the error of the first run is still the session's last_error when the
\* second run, started later, has made the session ready
C21_Witness ==
    /\ last.op = "run_returns"
    /\ last.arg = "configuring"
    /\ last.r = 2
    /\ runs[last.id][1].pc = "done"
    /\ LastSession.state = "ready"
    /\ LastSession.last_error = "quota exceeded"

\* C22: a session in state idle stays idle or goes to starting: no step of a
\* command or of a run takes it from idle to any other state.
C22_IdleToStarting ==
    [][\A id \in Ids :
          sess[id].state = "idle" => sess'[id].state \in {"idle", "starting"}]_vars

\* C23: a start command handled in a complete environment while the session
\* is stopped, error or idle is accepted: it creates a new assistant, makes it
\* the session's, and leaves the session starting.
C23_Restartable ==
    (/\ last.op = "start_session"
     /\ last.ev = "env complete"
     /\ last.pre \in {"stopped", "error", "idle"}) =>
        /\ last.arg = "started"
        /\ LastSession.state = "starting"
        /\ LastSession.assistant_instance = Len(runs[last.id])
        /\ LastSession.assistant_task = Len(runs[last.id])
        /\ runs[last.id][Len(runs[last.id])] = NewRun

\* C24: the session refers to no assistant whose run has terminated, and to
\* none at all while it is idle or stopped.
C24_ReferenceCleared ==
    \A id \in Ids :
        /\ sess[id].assistant_instance # 0 =>
              runs[id][sess[id].assistant_instance].pc # "done"
        /\ sess[id].state \in {"idle", "stopped"} => sess[id].assistant_instance = 0

\* the last step handled an AUDIO_DELTA
DeltaHandled == last.op = "run_event" /\ last.ev = "AUDIO_DELTA"

\* what C25 says of a chunk handled while _response_cancelled is true (it
\* changes nothing and broadcasts nothing) and of the state and the status
\* event of a chunk handled while it is false
GateStatus ==
    [][\A id \in Ids :
          (last'.op = "run_event" /\ last'.ev = "AUDIO_DELTA" /\ last'.id = id) =>
             IF Truthy(runs[id][last'.r].response_cancelled)
             THEN /\ sess'[id] = sess[id]
                  /\ last'.out = <<>>
                  /\ subs' = subs
                  /\ runs'[id][last'.r].response_cancelled =
                        runs[id][last'.r].response_cancelled
             ELSE /\ sess'[id].state = "assistant_speaking"
                  /\ \A i \in 1..Len(last'.out) :
                        last'.out[i].type = "status" =>
                           /\ i = 1
                           /\ last'.out[i] = StatusOf(sess'[id])
                           /\ sess[id].state # "assistant_speaking"
                  /\ sess[id].state # "assistant_speaking" =>
                        (last'.out # <<>> /\ last'.out[1].type = "status")]_vars

\* C25 as amended: an AUDIO_DELTA is forwarded as one audio event, carrying
\* its payload in base64, if and only if _response_cancelled is false when it
\* is handled and its payload is not empty. Handled while the flag is false,
\* with or without payload, it leaves the state assistant_speaking and
\* broadcasts a status event only if the state was not assistant_speaking
\* before. Handled while the flag is true it changes no field of the session,
\* no queue and no flag.
C25_AudioGate ==
    /\ GateStatus
    /\ [](DeltaHandled =>
            IF ~Truthy(last.preRc) /\ last.arg # ""
            THEN /\ last.out[Len(last.out)] =
                       [type |-> "audio", audio |-> b64encode(last.arg)]
                 /\ \A i \in 1..(Len(last.out) - 1) : last.out[i].type # "audio"
            ELSE ~HasAudio(last.out))

\* C25 as stated: the chunk is forwarded if and only if the flag is false.
C25_AsStated == DeltaHandled => (HasAudio(last.out) <=> ~Truthy(last.preRc))

\* a second chunk of an utterance was handled while the session was already
\* assistant_speaking: it is forwarded, with no status event
C25_Witness ==
    /\ DeltaHandled
    /\ last.arg = "PCM"
    /\ last.pre = "assistant_speaking"
    /\ last.preRc = "False"
    /\ last.out = <<[type |-> "audio", audio |-> "UENN"]>>
    /\ LastSession.state = "assistant_speaking"

\* C26: once the run of a session has put it in state error, an upstream
\* event the run handles leaves the state error (only the end of the run
\* changes it, to stopped).
C26_ErrorTerminal ==
    [][\A id \in Ids :
          (/\ sess[id].state = "error"
           /\ last'.op = "run_event"
           /\ last'.id = id) => sess'[id].state \in {"error", "stopped"}]_vars

\* the two events a SPEECH_STARTED broadcasts
ListeningThenStop ==
    <<[type |-> "status", state |-> "listening", message |-> "Listening...",
       last_error |-> "None", connected |-> TRUE],
      [type |-> "control", action |-> "stop_playback"]>>

\* C27: the step in which the run loop handles SPEECH_STARTED, whatever the
\* state, puts at the end of every registered queue the status event of
\* listening and, next to it, stop_playback, and nothing else; when the step
\* ends, a cancel request it sent upstream has not returned (the run is
\* suspended in it), so both events are in the queues before it completes.
C27_StopPlaybackFirst ==
    [][\A id \in Ids :
          (last'.op = "run_event" /\ last'.ev = "SPEECH_STARTED" /\ last'.id = id) =>
             LET evs == [ListeningThenStop EXCEPT
                            ![1].last_error = sess[id].last_error]
             IN  /\ last'.out = evs
                 /\ sess'[id].state = "listening"
                 /\ \A k \in 1..MaxSubs :
                       sess'[id].queue[k] =
                          IF Registered(id, k) THEN sess[id].queue[k] \o evs
                          ELSE sess[id].queue[k]
                 /\ subs' = subs
                 /\ runs'[id][last'.r].pc =
                       IF last'.cancel > 0 THEN "cancelling" ELSE "loop"]_vars

\* two subscribers were registered when SPEECH_STARTED was handled: the one
\* that reads has been given listening and then stop_playback, and the one
\* that does not has the same two at the end of its queue
C27_Witness ==
    /\ last.op = "deliver"
    /\ last.k = 2
    /\ LastSession.state = "listening"
    /\ LastSession.queue[2] = <<>>
    /\ Len(subs[last.id][2].got) >= 3
    /\ SubSeq(subs[last.id][2].got, Len(subs[last.id][2].got) - 1,
              Len(subs[last.id][2].got)) = ListeningThenStop
    /\ Len(LastSession.queue[1]) >= 2
    /\ SubSeq(LastSession.queue[1], Len(LastSession.queue[1]) - 1,
              Len(LastSession.queue[1])) = ListeningThenStop

\* the status events among the events of seq, in order
StatusEvents(seq) == SelectSeq(seq, LAMBDA e : e.type = "status")

\* the status event the i-th of the calls upd of update is to broadcast, on a
\* session that held the fields of s before the first of them: the state and
\* the message of the call, the last error given up to it (else the one of
\* s), and connected as the last state up to it that decides it says (else
\* as in s)
StatusFor(s, upd, i) ==
    LET errs == {j \in 1..i : upd[j].error # None /\ upd[j].error # ""}
        decs == {j \in 1..i : upd[j].state # "starting"}
        latest(S) == CHOOSE j \in S : \A h \in S : h <= j
    IN  [type |-> "status",
         state |-> upd[i].state,
         message |-> upd[i].message,
         last_error |-> IF errs = {} THEN s.last_error ELSE upd[latest(errs)].error,
         connected |-> IF decs = {} THEN s.connected
                       ELSE upd[latest(decs)].state \in
                               {"ready", "listening", "processing", "assistant_speaking"}]

\* C28: the status events a step adds to what a subscriber registered before
\* and after it has been sent are, one for one and in order, those of the
\* calls of update in the step, each carrying the state, message, last_error
\* and connected the session holds right after its call; after the last call
\* of a step the session holds the fields of its event, and a step without a
\* call leaves the four fields alone. (So the status events a subscriber is
\* sent after its snapshot are the updates applied since it subscribed, in
\* order.)
C28_StatusPerUpdate ==
    [][\A id \in Ids :
          /\ \A k \in 1..MaxSubs :
                (Registered(id, k) /\ Registered(id, k)') =>
                   StatusEvents(Sent(id, k)') =
                      StatusEvents(Sent(id, k)) \o
                         (IF last'.id = id
                          THEN [i \in 1..Len(last'.upd) |->
                                   StatusFor(sess[id], last'.upd, i)]
                          ELSE <<>>)
          /\ (last'.id = id /\ last'.upd # <<>>) =>
                StatusOf(sess'[id]) = StatusFor(sess[id], last'.upd, Len(last'.upd))
          /\ (last'.id # id \/ last'.upd = <<>>) =>
                StatusOf(sess'[id]) = StatusOf(sess[id])]_vars

\* a subscriber that joined while the session was starting has yielded its
\* snapshot and the status events of ready, of a second update to ready with
\* another message, and of stopped, in the order the updates were applied
C28_Witness ==
    \E id \in Ids, k \in 1..MaxSubs :
        /\ subs[id][k].pc = "open"
        /\ Len(StatusEvents(subs[id][k].got)) = 4
        /\ StatusEvents(subs[id][k].got)[1].state = "starting"
        /\ StatusEvents(subs[id][k].got)[2].message = "Session Ready. Speak now."
        /\ StatusEvents(subs[id][k].got)[3].message = "Ready"
        /\ StatusEvents(subs[id][k].got)[4] = StatusOf(sess[id])
        /\ sess[id].state = "stopped"

\* C29: when stop_session returns, at once or after its wait (the run having
\* ended by itself or having been cancelled at the timeout), the session is
\* stopped and not connected, and holds neither assistant nor task.
C29_StopReturns ==
    (last.op = "stop_session" /\ last.arg = "stopped") =>
        /\ LastSession.state = "stopped"
        /\ LastSession.message = "Session stopped manually."
        /\ ~LastSession.connected
        /\ LastSession.assistant_instance = 0
        /\ LastSession.assistant_task = 0
        /\ last.out = <<StatusOf(LastSession)>>

\* a stop command has returned after its wait expired and the run was
\* cancelled
C29_Witness ==
    /\ last.op = "stop_session"
    /\ last.arg = "stopped"
    /\ last.r = 1
    /\ runs[last.id][1].result = "cancelled"
    /\ runs[last.id][1].waiters = 0
    /\ LastSession.assistant_task = 0
    /\ LastSession.state = "stopped"

\* C30: an interrupt() called while the session is ready (no utterance in
\* flight) does not suppress the utterance that follows: when the next step
\* is the run handling an AUDIO_DELTA with a payload, the chunk is forwarded.
C30_NextUtterancePlays ==
    [][(/\ last.op = "interrupt"
        /\ last.arg = "cancelling"
        /\ last.pre = "ready"
        /\ last'.op = "run_event"
        /\ last'.ev = "AUDIO_DELTA"
        /\ last'.arg # "") => HasAudio(last'.out)]_vars

\* the operations that are steps of a run
RunOps ==
    {"run_begin", "run_returns", "run_event", "run_break", "run_stream_end",
     "run_fail", "run_exit", "run_cancelled"}

\* C31: a run updates the session and broadcasts to its subscribers only
\* while it is the assistant the session refers to; so a run that a returned
\* stop has left behind writes nothing once a later start was accepted.
C31_NoStaleWrites ==
    [][\A id \in Ids :
          (/\ last'.id = id
           /\ last'.op \in RunOps
           /\ (last'.upd # <<>> \/ last'.out # <<>>)) =>
              sess[id].assistant_instance = last'.r]_vars

\* the state of the last status event of seq before position i ("" if none)
StatusBefore(seq, i) ==
    LET js == {j \in 1..(i - 1) : seq[j].type = "status"}
    IN  IF js = {} THEN ""
        ELSE seq[CHOOSE j \in js : \A h \in js : h <= j].state

\* C32: a step that broadcasts an audio event leaves the session
\* assistant_speaking, and a status event it broadcasts with it comes first
\* and says assistant_speaking; in what every subscriber has been sent, the
\* last status event before an audio event (its snapshot, if nothing since)
\* says assistant_speaking.
C32_AudioWhileSpeaking ==
    /\ HasAudio(last.out) =>
          /\ last.op = "run_event"
          /\ LastSession.state = "assistant_speaking"
          /\ \A i \in 1..Len(last.out) :
                IF last.out[i].type = "audio"
                THEN i = 1 \/ StatusBefore(last.out, i) = "assistant_speaking"
                ELSE last.out[i].type = "status"
    /\ \A id \in Ids, k \in 1..MaxSubs :
          \A i \in 1..Len(Sent(id, k)) :
             Sent(id, k)[i].type = "audio" =>
                StatusBefore(Sent(id, k), i) = "assistant_speaking"

\* a subscriber joined in the middle of an utterance and has yielded the next
\* chunk right after its snapshot; an earlier chunk of the utterance had made
\* the session assistant_speaking
C32_Witness ==
    /\ last.op = "deliver"
    /\ subs[last.id][1].got =
          <<[type |-> "status", state |-> "assistant_speaking",
             message |-> "Assistant Speaking...", connected |-> TRUE],
            [type |-> "audio", audio |-> "UENN"]>>
    /\ used[last.id].events >= 2

====
